---------------------------- MODULE Spec2Model ----------------------------
(***************************************************************************)
(* Contact normalisation and contact store of the beauty-brand bot.        *)
(*                                                                         *)
(* A Python str is modelled as a sequence of one-character strings, so     *)
(* that prefixes, lengths and character classes are computed and not       *)
(* assumed.  None is the one-element sequence <<"None">>, which no         *)
(* sequence of single characters equals.                                   *)
(***************************************************************************)
EXTENDS Integers, Sequences, FiniteSets, TLC

None == <<"None">>

Digits == {"0", "1", "2", "3", "4", "5", "6", "7", "8", "9"}

StartsWith(s, p) == Len(s) >= Len(p) /\ SubSeq(s, 1, Len(p)) = p

Drop(s, n) == SubSeq(s, n + 1, Len(s))

(***************************************************************************)
(* helpers.clean_phone_number                                              *)
(***************************************************************************)

\* faulty variant: the class [^\d+-], which lets a hyphen through
KeepCharHyphen(c) == c \in Digits \cup {"+", "-"}

\* the character class [^\d+] of re.sub: a digit or a plus is kept, wherever it is
KeepChar(c) == c \in Digits \cup {"+"}

ReSub(phone) == SelectSeq(phone, KeepChar)

\* faulty variant: the elif chain tried in the reverse order
PrefixRulesReordered(cleaned) ==
    IF ~StartsWith(cleaned, <<"+">>) /\ Len(cleaned) >= 10
        THEN <<"+", "6", "2">> \o cleaned
    ELSE IF StartsWith(cleaned, <<"8">>) /\ Len(cleaned) >= 9
        THEN <<"+", "6", "2">> \o cleaned
    ELSE IF StartsWith(cleaned, <<"6", "2">>) /\ ~StartsWith(cleaned, <<"+", "6", "2">>)
        THEN <<"+">> \o cleaned
    ELSE IF StartsWith(cleaned, <<"0", "8">>)
        THEN <<"+", "6", "2">> \o Drop(cleaned, 1)
    ELSE cleaned

\* faulty variant: the 08 rule keeps the trunk zero
PrefixRulesKeepZero(cleaned) ==
    IF StartsWith(cleaned, <<"0", "8">>)
        THEN <<"+", "6", "2">> \o cleaned
    ELSE IF StartsWith(cleaned, <<"6", "2">>) /\ ~StartsWith(cleaned, <<"+", "6", "2">>)
        THEN <<"+">> \o cleaned
    ELSE IF StartsWith(cleaned, <<"8">>) /\ Len(cleaned) >= 9
        THEN <<"+", "6", "2">> \o cleaned
    ELSE IF ~StartsWith(cleaned, <<"+">>) /\ Len(cleaned) >= 10
        THEN <<"+", "6", "2">> \o cleaned
    ELSE cleaned

\* faulty variant: the default-country rule does not look for a plus
PrefixRulesNoPlusCheck(cleaned) ==
    IF StartsWith(cleaned, <<"0", "8">>)
        THEN <<"+", "6", "2">> \o Drop(cleaned, 1)
    ELSE IF StartsWith(cleaned, <<"6", "2">>) /\ ~StartsWith(cleaned, <<"+", "6", "2">>)
        THEN <<"+">> \o cleaned
    ELSE IF StartsWith(cleaned, <<"8">>) /\ Len(cleaned) >= 9
        THEN <<"+", "6", "2">> \o cleaned
    ELSE IF Len(cleaned) >= 10
        THEN <<"+", "6", "2">> \o cleaned
    ELSE cleaned

\* the if/elif chain of helpers.clean_phone_number
PrefixRules(cleaned) ==
    IF StartsWith(cleaned, <<"0", "8">>)
        THEN <<"+", "6", "2">> \o Drop(cleaned, 1)
    ELSE IF StartsWith(cleaned, <<"6", "2">>) /\ ~StartsWith(cleaned, <<"+", "6", "2">>)
        THEN <<"+">> \o cleaned
    ELSE IF StartsWith(cleaned, <<"8">>) /\ Len(cleaned) >= 9
        THEN <<"+", "6", "2">> \o cleaned
    ELSE IF ~StartsWith(cleaned, <<"+">>) /\ Len(cleaned) >= 10
        THEN <<"+", "6", "2">> \o cleaned
    ELSE cleaned

\* faulty variant: the length window is not checked
BasicValidNoLength(cleaned) == StartsWith(cleaned, <<"+", "6", "2">>)

\* "Basic validation": starts with +62 and 12 <= len <= 15
BasicValid(cleaned) ==
    /\ StartsWith(cleaned, <<"+", "6", "2">>)
    /\ Len(cleaned) >= 12
    /\ Len(cleaned) <= 15

clean_phone_number(phone) ==
    IF phone = <<>> THEN None
    ELSE IF BasicValid(PrefixRules(ReSub(phone))) THEN PrefixRules(ReSub(phone))
    ELSE None


(***************************************************************************)
(* ContactFinderAgent._clean_phone_number                                  *)
(***************************************************************************)

\* the if/elif chain of the agent: the first three rules only
AgentPrefixRules(cleaned) ==
    IF StartsWith(cleaned, <<"0", "8">>)
        THEN <<"+", "6", "2">> \o Drop(cleaned, 1)
    ELSE IF StartsWith(cleaned, <<"6", "2">>) /\ ~StartsWith(cleaned, <<"+", "6", "2">>)
        THEN <<"+">> \o cleaned
    ELSE IF StartsWith(cleaned, <<"8">>) /\ Len(cleaned) >= 9
        THEN <<"+", "6", "2">> \o cleaned
    ELSE cleaned

IsPlus(c) == c = "+"

RECURSIVE StripLeadingPlus(_)
StripLeadingPlus(s) ==
    IF s # <<>> /\ Head(s) = "+" THEN StripLeadingPlus(Tail(s)) ELSE s

RECURSIVE StripTrailingPlus(_)
StripTrailingPlus(s) ==
    IF s # <<>> /\ s[Len(s)] = "+" THEN StripTrailingPlus(SubSeq(s, 1, Len(s) - 1)) ELSE s

\* the trunk prefix 0 of region ID is removed from a national number; a number
\* that starts with 00 keeps its zeros
StripNationalPrefix(nn) ==
    IF Len(nn) >= 2 /\ nn[1] = "0" /\ nn[2] # "0" THEN Tail(nn) ELSE nn

\* a number written with its country code: 62 is followed by the national
\* number, any other code is kept with it; no country code starts with 0; a
\* national number has at least two digits
InternationalE164(digits) ==
    IF StartsWith(digits, <<"6", "2">>)
        THEN IF Len(StripNationalPrefix(Drop(digits, 2))) >= 2
                THEN {<<"+", "6", "2">> \o StripNationalPrefix(Drop(digits, 2))}
                ELSE {}
    ELSE IF Len(digits) < 3 \/ digits[1] = "0" THEN {}
    ELSE {<<"+">> \o digits}

\* phonenumbers.parse(cleaned, 'ID') followed by format_number(.., E164), as far
\* as the string decides it: the E.164 strings the library can return for
\* cleaned (none when parse raises NumberParseException).  Whether the parsed
\* number is valid is the library's numbering-plan metadata and is left open:
\* LibOutcomes adds the outcome "invalid".
LibE164(cleaned) ==
    LET body   == StripTrailingPlus(cleaned)
        digits == StripLeadingPlus(body)
    IN  IF Len(digits) < 2 \/ SelectSeq(digits, IsPlus) # <<>>
            THEN {}
        ELSE IF StartsWith(body, <<"+">>)
            THEN InternationalE164(digits)
        ELSE (IF Len(StripNationalPrefix(digits)) >= 2
                 THEN {<<"+", "6", "2">> \o StripNationalPrefix(digits)}
                 ELSE {})
             \cup (IF StartsWith(digits, <<"0", "0", "8">>) \/ StartsWith(digits, <<"0", "0", "9">>)
                      THEN InternationalE164(Drop(digits, 3))
                      ELSE {})

Invalid == <<"invalid">>

LibOutcomes(cleaned) == {Invalid} \cup LibE164(cleaned)

\* lib is the outcome of the library for the rewritten string
ContactFinderAgent_clean_phone_number(phone, lib) ==
    LET cleaned == AgentPrefixRules(ReSub(phone))
    IN  IF lib # Invalid THEN lib
        ELSE IF BasicValid(cleaned) THEN cleaned
        ELSE None


(***************************************************************************)
(* The normaliser as a state machine: an input string is drawn, one of the *)
(* two implementations is applied to it, and its result is fed back.       *)
(***************************************************************************)

VARIABLES raw, fn, stripped, rewritten, libres, result, again, forms, pc,
          email, emailLib, emailOK

phoneVars == <<raw, fn, stripped, rewritten, libres, result, again, forms, pc>>

emailVars == <<email, emailLib, emailOK>>

VARIABLES brands, contacts, ret

storeVars == <<brands, contacts, ret>>

StoreIdle ==
    /\ brands = <<>>
    /\ contacts = <<>>
    /\ ret = 0

\* the save_brand coroutines in flight, the task that holds the event loop, and
\* the open write transaction of the database file
VARIABLES tasks, running, txn

taskVars == <<tasks, running, txn>>

NoTxn == [owner |-> 0, brands |-> <<>>, contacts |-> <<>>]

TaskIdle ==
    /\ tasks = <<>>
    /\ running = 0
    /\ txn = NoTxn

\* the matches of the patterns in a text and the answers of the libraries, the
\* result of _parse_contact_results, the argument and result of
\* create_contact_summary
VARIABLES matches, oracle, all_contacts, parsed, brand_data, summary

aggVars == <<matches, oracle, all_contacts, parsed, brand_data, summary>>

NoMatches == [phone |-> <<>>, email |-> <<>>, whatsapp |-> <<>>, social |-> <<>>]

NoBuckets == [whatsapp |-> <<>>, phone |-> <<>>, email |-> <<>>, social |-> <<>>, total |-> 0]

NoBrandData ==
    [contacts |-> <<>>, whatsapp_numbers |-> <<>>, email_addresses |-> <<>>,
     phone_numbers |-> <<>>, social_media |-> <<>>]

NoSummary == [whatsapp |-> {}, email |-> {}, phone |-> {}, social |-> {}, total |-> 0]

AggIdle ==
    /\ matches = NoMatches
    /\ oracle = <<>>
    /\ all_contacts = <<>>
    /\ parsed = NoBuckets
    /\ brand_data = NoBrandData
    /\ summary = NoSummary

\* BeautyBotAgent: the stage of each user's session, and the update handled
\* last together with what its handler did
VARIABLES user_sessions, update

botVars == <<user_sessions, update>>

NoUpdate ==
    [user |-> 0, kind |-> "none", text |-> <<>>, searched |-> FALSE, found |-> NoBuckets,
     saved |-> FALSE, sent |-> None, url |-> None]

\* the clock of the database in seconds, the column updated_at of the brands
\* table, the ids of the rows save_brand wrote in the order of the calls, the
\* table outreach_log, and the operation executed last with what it returned
VARIABLES now, updated_at, upserts, outreach_log, op

dbVars == <<now, updated_at, upserts, outreach_log, op>>

NoOp == [name |-> "none", arg |-> <<>>, rows |-> <<>>]

\* the values of the variables of the operations a specification leaves out
BotIdle == user_sessions = <<>> /\ update = NoUpdate

DbIdle == now = 0 /\ updated_at = <<>> /\ upserts = <<>> /\ outreach_log = <<>> /\ op = NoOp

\* the frame of send_bulk_messages and the frame of make_request
VARIABLES bulk, req

NoBulk ==
    [contacts |-> <<>>, i |-> 0, sent |-> 0, failed |-> 0, total |-> 0,
     returned |-> <<>>, slept |-> <<>>, pc |-> "idle"]

NoReq == [retries |-> 0, attempt |-> 0, outcomes |-> <<>>, slept |-> <<>>,
          response |-> 0, pc |-> "idle"]

opsVars == <<botVars, dbVars, bulk, req>>

OpsIdle ==
    /\ BotIdle
    /\ DbIdle
    /\ bulk = NoBulk
    /\ req = NoReq

MaxHead == 3

MaxPad == 13

HeadChars == {"0", "6", "2", "8", "+", "-"}

Tails == {<<>>, <<"+">>, <<"-">>, <<")">>, <<" ">>, <<"0">>}

SeqsUpTo(S, n) == UNION {[1..k -> S] : k \in 0..n}

Pad(k) == [i \in 1..k |-> "1"]

\* the strings of the tests and of the documentation
NamedPhones ==
    { <<"0", "8", "1", "2", "3", "4", "5", "6", "7", "8", "9", "0">>,
      <<"+", "6", "2", "8", "1", "2", "3", "4", "5", "6", "7", "8", "9", "0">>,
      <<"6", "2", "8", "1", "2", "3", "4", "5", "6", "7", "8", "9", "0">>,
      <<"+", "6", "2", " ", "8", "1", "2", "-", "3", "4", "5", "6", "-", "7", "8", "9", "0">>,
      <<"(", "0", "2", "1", ")", " ", "5", "5", "5", "-", "1", "2", "3", "4">>,
      <<"1", "2", "3", "4", "5">>,
      <<"8", "1", "2", "3", "4", "5", "6", "7", "8", "9", "0">>,
      <<"+", "6", "2", "8", "1", "2", "+", "3", "4", "5", "6", "7", "8", "9">>,
      <<"i", "n", "v", "a", "l", "i", "d", "_", "p", "h", "o", "n", "e">> }

PhoneInputs ==
    {h \o Pad(k) \o t : h \in SeqsUpTo(HeadChars, MaxHead), k \in 0..MaxPad, t \in Tails}
        \cup NamedPhones

PhoneIdle ==
    /\ fn = "none"
    /\ stripped = None
    /\ rewritten = None
    /\ libres = Invalid
    /\ result = None
    /\ again = None
    /\ forms = <<>>

EmailIdle ==
    /\ email = <<>>
    /\ emailLib = FALSE
    /\ emailOK = FALSE

PhoneInit ==
    /\ raw \in PhoneInputs
    /\ EmailIdle
    /\ StoreIdle
    /\ TaskIdle
    /\ AggIdle
    /\ PhoneIdle
    /\ OpsIdle
    /\ pc = "start"

\* helpers.clean_phone_number(raw)
CleanPhone ==
    /\ pc = "start"
    /\ fn' = "helpers"
    /\ stripped' = IF raw = <<>> THEN None ELSE ReSub(raw)
    /\ rewritten' = IF raw = <<>> THEN None ELSE PrefixRules(ReSub(raw))
    /\ result' = clean_phone_number(raw)
    /\ pc' = "done"
    /\ UNCHANGED <<opsVars, raw, libres, again, forms, emailVars, storeVars, taskVars, aggVars>>

\* ContactFinderAgent._clean_phone_number(raw)
AgentCleanPhone ==
    /\ pc = "start"
    /\ \E lib \in LibOutcomes(AgentPrefixRules(ReSub(raw))) :
          /\ libres' = lib
          /\ result' = ContactFinderAgent_clean_phone_number(raw, lib)
    /\ fn' = "agent"
    /\ stripped' = ReSub(raw)
    /\ rewritten' = AgentPrefixRules(ReSub(raw))
    /\ pc' = "done"
    /\ UNCHANGED <<opsVars, raw, again, forms, emailVars, storeVars, taskVars, aggVars>>

\* The library is a function of its argument: the same string gets the same
\* outcome, and the E.164 form of a number it found valid parses to a valid
\* number again.
LibAgain(c) ==
    IF c = rewritten THEN {libres}
    ELSE IF libres # Invalid /\ LibE164(c) # {} THEN LibE164(c)
    ELSE IF libres # Invalid THEN {Invalid}
    ELSE LibOutcomes(c)

\* the canonical output is normalised once more by the same implementation
Refeed ==
    /\ pc = "done"
    /\ result # None
    /\ \/ /\ fn = "helpers"
          /\ again' = clean_phone_number(result)
       \/ /\ fn = "agent"
          /\ \E lib \in LibAgain(AgentPrefixRules(ReSub(result))) :
                again' = ContactFinderAgent_clean_phone_number(result, lib)
    /\ pc' = "refed"
    /\ UNCHANGED <<opsVars, raw, fn, stripped, rewritten, libres, result, forms, emailVars, storeVars, taskVars, aggVars>>

IsSubscriber(d) == d # <<>> /\ d[1] = "8" /\ \A i \in 1..Len(d) : d[i] \in Digits

\* the three written forms of one subscriber number raw, by helpers.clean_phone_number
CleanForms ==
    /\ pc = "start"
    /\ IsSubscriber(raw)
    /\ fn' = "helpers"
    /\ forms' = << clean_phone_number(<<"0">> \o raw),
                   clean_phone_number(<<"6", "2">> \o raw),
                   clean_phone_number(<<"+", "6", "2">> \o raw) >>
    /\ pc' = "forms"
    /\ UNCHANGED <<opsVars, raw, stripped, rewritten, libres, result, again, emailVars, storeVars, taskVars, aggVars>>

\* the same three forms by the agent; the three calls hand the library the same
\* string, so the library's outcome is one
AgentCleanForms ==
    /\ pc = "start"
    /\ IsSubscriber(raw)
    /\ fn' = "agent"
    /\ \E lib \in LibOutcomes(<<"+", "6", "2">> \o raw) :
          /\ libres' = lib
          /\ forms' = << ContactFinderAgent_clean_phone_number(<<"0">> \o raw, lib),
                         ContactFinderAgent_clean_phone_number(<<"6", "2">> \o raw, lib),
                         ContactFinderAgent_clean_phone_number(<<"+", "6", "2">> \o raw, lib) >>
    /\ pc' = "forms"
    /\ UNCHANGED <<opsVars, raw, stripped, rewritten, result, again, emailVars, storeVars, taskVars, aggVars>>

PhoneNext == CleanPhone \/ AgentCleanPhone \/ Refeed \/ CleanForms \/ AgentCleanForms

(***************************************************************************)
(* helpers.validate_email_address                                          *)
(***************************************************************************)

Letters ==
    {"a", "b", "c", "d", "e", "f", "g", "h", "i", "j", "k", "l", "m",
      "n", "o", "p", "q", "r", "s", "t", "u", "v", "w", "x", "y", "z",
      "A", "B", "C", "D", "E", "F", "G", "H", "I", "J", "K", "L", "M",
      "N", "O", "P", "Q", "R", "S", "T", "U", "V", "W", "X", "Y", "Z"}

LocalChars == Letters \cup Digits \cup {".", "_", "%", "+", "-"}

DomainChars == Letters \cup Digits \cup {".", "-"}

AllIn(s, lo, hi, S) == \A k \in lo..hi : s[k] \in S

\* re.match(r'^[a-zA-Z0-9._%+-]+@[a-zA-Z0-9.-]+\.[a-zA-Z]{2,}$', s); the $ of a
\* Python pattern also matches before one final line feed
EmailPattern(s) ==
    \E n \in {Len(s)} \cup (IF s # <<>> /\ s[Len(s)] = "\n" THEN {Len(s) - 1} ELSE {}) :
        \E i \in 2..n : \E j \in (i + 2)..(n - 2) :
            /\ s[i] = "@"
            /\ AllIn(s, 1, i - 1, LocalChars)
            /\ AllIn(s, i + 1, j - 1, DomainChars)
            /\ s[j] = "."
            /\ AllIn(s, j + 1, n, Letters)

\* lib: whether email_validator.validate_email accepts the string
validate_email_address(s, lib) ==
    IF s = <<>> THEN FALSE
    ELSE IF ~EmailPattern(s) THEN FALSE
    ELSE lib

MaxEmailLen == 6

EmailChars == {"a", "1", "@", ".", "-"}

NamedEmails ==
    { <<"n", "o", "t", "-", "a", "n", "-", "e", "m", "a", "i", "l">>,
      <<"i", "n", "v", "a", "l", "i", "d", ".", "e", "m", "a", "i", "l">>,
      <<"t", "e", "s", "t", "@", "e", "x", "a", "m", "p", "l", "e", ".", "c", "o", "m">>,
      <<"u", "s", "e", "r", "@", "d", "o", "m", "a", "i", "n", ".", "c", "o", ".", "i", "d">>,
      <<"a", "@", "b", ".", "c", "o", "\n">>,
      <<" ", "a", "@", "b", ".", "c", "o">> }

EmailInputs == SeqsUpTo(EmailChars, MaxEmailLen) \cup NamedEmails

EmailInit ==
    /\ email \in EmailInputs
    /\ emailLib = FALSE
    /\ emailOK = FALSE
    /\ raw = <<>>
    /\ PhoneIdle
    /\ OpsIdle
    /\ StoreIdle
    /\ TaskIdle
    /\ AggIdle
    /\ pc = "email"

ValidateEmail ==
    /\ pc = "email"
    /\ \E lib \in BOOLEAN :
          /\ emailLib' = lib
          /\ emailOK' = validate_email_address(email, lib)
    /\ pc' = "emailed"
    /\ UNCHANGED <<opsVars, email, raw, fn, stripped, rewritten, libres, result, again, forms, storeVars, taskVars, aggVars>>

vars == <<phoneVars, emailVars, storeVars, taskVars, aggVars, opsVars>>

NormInit == PhoneInit \/ EmailInit

NormNext == PhoneNext \/ ValidateEmail

\* the two normalisers, each run on one drawn input
NormSpec == NormInit /\ [][NormNext]_vars



(***************************************************************************)
(* DatabaseManager: the brands table and the contacts table                *)
(***************************************************************************)

\* a key the dict brand_data does not hold
Absent == "<absent>"

\* brand_data.get(key, default)
Get(v, default) == IF v = Absent THEN default ELSE v

Contains(s, sub) ==
    \E k \in 0..(Len(s) - Len(sub)) : SubSeq(s, k + 1, k + Len(sub)) = sub

UpperToLower ==
    [c \in {"A", "E", "H", "M", "O", "P", "S", "W"} |->
        CASE c = "A" -> "a" [] c = "E" -> "e" [] c = "H" -> "h" [] c = "M" -> "m"
          [] c = "O" -> "o" [] c = "P" -> "p" [] c = "S" -> "s" [] c = "W" -> "w"]

\* str.lower on the letters the inputs are written with
Lower(s) == [k \in 1..Len(s) |-> IF s[k] \in DOMAIN UpperToLower THEN UpperToLower[s[k]] ELSE s[k]]

Whitespace == {" ", "\t", "\n"}

RECURSIVE LStrip(_)
LStrip(s) == IF s # <<>> /\ Head(s) \in Whitespace THEN LStrip(Tail(s)) ELSE s

RECURSIVE RStrip(_)
RStrip(s) ==
    IF s # <<>> /\ s[Len(s)] \in Whitespace THEN RStrip(SubSeq(s, 1, Len(s) - 1)) ELSE s

\* str.strip
Strip(s) == RStrip(LStrip(s))

Platforms ==
    { <<"i", "n", "s", "t", "a", "g", "r", "a", "m">>,
      <<"f", "a", "c", "e", "b", "o", "o", "k">>,
      <<"t", "i", "k", "t", "o", "k">>,
      <<"y", "o", "u", "t", "u", "b", "e">> }

determine_contact_type(contact) ==
    IF Contains(Lower(contact), <<"w", "h", "a", "t", "s", "a", "p", "p">>)
       \/ Contains(Lower(contact), <<"w", "a", ".">>)
        THEN "whatsapp"
    ELSE IF Contains(contact, <<"@">>) THEN "email"
    ELSE IF \E k \in 1..Len(contact) : contact[k] \in Digits THEN "phone"
    ELSE IF \E pf \in Platforms : Contains(Lower(contact), pf) THEN "social"
    ELSE "other"

Prefixes ==
    << <<"p", "h", "o", "n", "e", ":">>,
       <<"e", "m", "a", "i", "l", ":">>,
       <<"w", "h", "a", "t", "s", "a", "p", "p", ":">>,
       <<"w", "a", ":">>,
       <<"s", "o", "c", "i", "a", "l", ":">> >>

extract_contact_value(contact) ==
    LET hits == {k \in 1..Len(Prefixes) : StartsWith(Lower(contact), Prefixes[k])}
    IN  IF hits = {} THEN Strip(contact)
        ELSE Strip(Drop(contact, Len(Prefixes[CHOOSE k \in hits : \A m \in hits : k <= m])))

\* the rows _save_contacts inserts for the first n contacts of the list
RECURSIVE ContactRows(_, _, _)
ContactRows(brand_id, list, n) ==
    IF n = 0 THEN <<>>
    ELSE ContactRows(brand_id, list, n - 1)
         \o (IF extract_contact_value(list[n]) # <<>>
                THEN << [brand_id      |-> brand_id,
                         contact_type  |-> determine_contact_type(list[n]),
                         contact_value |-> extract_contact_value(list[n])] >>
                ELSE <<>>)

NotOfBrand(brand_id, rows) ==
    LET Keep(r) == r.brand_id # brand_id IN SelectSeq(rows, Keep)

\* _save_contacts: DELETE the brand's rows, then INSERT one row per contact with
\* a value.  When a statement raises, the exception is logged and swallowed, and
\* what was executed before it stays in the transaction: done = 0 when the
\* DELETE raised, done = n + 1 when the DELETE and n contacts went through.
save_contacts(rows, brand_id, list, raised, done) ==
    IF ~raised THEN NotOfBrand(brand_id, rows) \o ContactRows(brand_id, list, Len(list))
    ELSE IF done = 0 THEN rows
    ELSE NotOfBrand(brand_id, rows) \o ContactRows(brand_id, list, done - 1)

MaxBrands == 2

EmailA == <<"a", "@", "a", "c", "m", "e", ".", "i", "d">>

PhoneB == <<"+", "6", "2", "8", "1", "1", "1", "1", "1", "1", "1", "1", "1", "1">>

\* the same number as a labelled contact string
PhonePrefixedB == <<"P", "h", "o", "n", "e", ":", " ">> \o PhoneB

NoAttrs ==
    [category |-> Absent, location |-> Absent, business_type |-> Absent, description |-> Absent]

\* what a call can say beside name and website
Payloads ==
    { NoAttrs @@ [contacts |-> <<>>],
      [category |-> "", location |-> Absent, business_type |-> Absent,
       description |-> Absent, contacts |-> <<EmailA>>],
      [category |-> "Skincare", location |-> "Jakarta", business_type |-> "UMKM",
       description |-> "desc", contacts |-> <<PhoneB, PhonePrefixedB>>] }

BrandInputs ==
    { [name |-> n, website |-> w] @@ pl :
        n \in {Absent, "", "Acme", "Beta"}, w \in {Absent, "", "acme.id"}, pl \in Payloads }

\* SELECT id FROM brands WHERE name = ? OR website = ?
Matching(rows, name, website) ==
    {id \in 1..Len(rows) : rows[id].name = name \/ rows[id].website = website}

\* cursor.fetchone(): the first row of the table scan, None (0) when no row matches
FetchOne(ids) == IF ids = {} THEN 0 ELSE CHOOSE id \in ids : \A other \in ids : id <= other

\* the local variable existing of save_brand(d)
Existing(rows, d) == FetchOne(Matching(rows, Get(d.name, ""), Get(d.website, "")))

\* the row written by the UPDATE: every column but name is set from the call
Updated(row, d) ==
    [ name          |-> row.name,
      website       |-> Get(d.website, ""),
      category      |-> Get(d.category, ""),
      location      |-> Get(d.location, ""),
      business_type |-> Get(d.business_type, ""),
      contacts      |-> d.contacts,
      description   |-> Get(d.description, "") ]

\* the row written by the INSERT
Inserted(d) ==
    [ name          |-> Get(d.name, "Unknown"),
      website       |-> Get(d.website, ""),
      category      |-> Get(d.category, ""),
      location      |-> Get(d.location, ""),
      business_type |-> Get(d.business_type, ""),
      contacts      |-> d.contacts,
      description   |-> Get(d.description, "") ]

\* faulty variant: the id of the row before the inserted one
LastRowIdBefore(rows) == Len(rows)

\* cursor.lastrowid after the INSERT: AUTOINCREMENT ids start at 1 and no row is
\* ever deleted from brands
LastRowId(rows) == Len(rows) + 1

\* save_brand(d) when no statement of save_brand itself raises; raised: a
\* statement of _save_contacts raises after done statements
SaveBrandCall(d, raised, done) ==
    IF Existing(brands, d) # 0
       THEN /\ brands' = [brands EXCEPT ![Existing(brands, d)] = Updated(@, d)]
            /\ contacts' = save_contacts(contacts, Existing(brands, d), d.contacts, raised, done)
            /\ ret' = Existing(brands, d)
       ELSE /\ Len(brands) < MaxBrands
            /\ brands' = Append(brands, Inserted(d))
            /\ contacts' = save_contacts(contacts, LastRowId(brands), d.contacts, raised, done)
            /\ ret' = LastRowId(brands)

\* save_brand(d), no exception
SaveBrand ==
    /\ pc = "store"
    /\ \E d \in BrandInputs : SaveBrandCall(d, FALSE, 0)
    /\ UNCHANGED <<opsVars, phoneVars, emailVars, taskVars, aggVars>>

\* save_brand(d), the SELECT, the UPDATE or INSERT, or the commit raises: the
\* with block is left by the exception, the transaction is rolled back, the
\* except clause returns 0
SaveBrandAbort ==
    /\ pc = "store"
    /\ ret' = 0
    /\ UNCHANGED <<opsVars, brands, contacts, phoneVars, emailVars, taskVars, aggVars>>

\* save_brand(d), a statement of _save_contacts raises: _save_contacts logs the
\* exception and returns, save_brand commits what was executed
SaveBrandContactsRaise ==
    /\ pc = "store"
    /\ \E d \in BrandInputs : \E done \in 0..Len(d.contacts) : SaveBrandCall(d, TRUE, done)
    /\ UNCHANGED <<opsVars, phoneVars, emailVars, taskVars, aggVars>>

StoreInit ==
    /\ StoreIdle
    /\ TaskIdle
    /\ AggIdle
    /\ raw = <<>>
    /\ PhoneIdle
    /\ OpsIdle
    /\ EmailIdle
    /\ pc = "store"

Next == SaveBrand \/ SaveBrandAbort \/ SaveBrandContactsRaise

\* the contact store under any sequence of save_brand calls
Spec == StoreInit /\ [][Next]_vars


(***************************************************************************)
(* Two save_brand coroutines on one event loop, each with a connection of  *)
(* its own to the database file                                            *)
(***************************************************************************)

Tasks == {1, 2}

\* what the two calls are made with
TaskInputs ==
    {d \in BrandInputs : d.name \in {"Acme", "Beta"} /\ d.website \in {Absent, "acme.id"}}

\* faulty variant: the await of _save_contacts gives the event loop away
SuspensionPointsAtAwait == {"contacts"}

\* the positions at which a save_brand coroutine gives the event loop away: its
\* one await is of the coroutine _save_contacts, which awaits nothing, and the
\* sqlite3 calls are plain blocking calls
SuspensionPoints == {}

\* who holds the event loop after task t has moved to position to
Yield(t, to) == IF to \in SuspensionPoints \cup {"done"} THEN 0 ELSE t

\* a call at its start; raised: the statement that raised in the call, wrote:
\* _save_contacts was called
NewTask(d) ==
    [pc |-> "select", d |-> d, existing |-> 0, brand_id |-> 0, ret |-> 0,
     raised |-> "none", wrote |-> FALSE]

TaskInit ==
    /\ tasks \in [Tasks -> {NewTask(d) : d \in TaskInputs}]
    /\ running = 0
    /\ txn = NoTxn
    /\ StoreIdle
    /\ AggIdle
    /\ raw = <<>>
    /\ PhoneIdle
    /\ OpsIdle
    /\ EmailIdle
    /\ pc = "tasks"

\* the event loop runs a coroutine that is ready
Resume(t) ==
    /\ pc = "tasks"
    /\ running = 0
    /\ tasks[t].pc # "done"
    /\ running' = t
    /\ UNCHANGED <<opsVars, tasks, txn, phoneVars, emailVars, storeVars, aggVars>>

\* sqlite3.connect, the SELECT and fetchone: the connection reads the committed
\* tables
Select(t) ==
    /\ pc = "tasks"
    /\ running = t
    /\ tasks[t].pc = "select"
    /\ tasks' = [tasks EXCEPT ![t].existing = Existing(brands, tasks[t].d),
                              ![t].pc = "write"]
    /\ running' = Yield(t, "write")
    /\ UNCHANGED <<opsVars, txn, phoneVars, emailVars, storeVars, aggVars>>

\* the UPDATE or the INSERT: the sqlite3 module begins a transaction before the
\* statement, and the statement needs the write lock of the file; when
\* another connection holds it the statement raises OperationalError, the
\* with block is left and the except clause returns 0
Write(t) ==
    /\ pc = "tasks"
    /\ running = t
    /\ tasks[t].pc = "write"
    /\ IF txn.owner # 0
          THEN /\ tasks' = [tasks EXCEPT ![t].ret = 0, ![t].pc = "done", ![t].raised = "locked"]
               /\ running' = Yield(t, "done")
               /\ txn' = txn
          ELSE /\ txn' = [ owner    |-> t,
                           brands   |-> IF tasks[t].existing # 0
                                           THEN [brands EXCEPT ![tasks[t].existing] =
                                                    Updated(@, tasks[t].d)]
                                           ELSE Append(brands, Inserted(tasks[t].d)),
                           contacts |-> contacts ]
               /\ tasks' = [tasks EXCEPT ![t].brand_id = IF tasks[t].existing # 0
                                                            THEN tasks[t].existing
                                                            ELSE LastRowId(brands),
                                         ![t].pc = "contacts"]
               /\ running' = Yield(t, "contacts")
    /\ UNCHANGED <<opsVars, phoneVars, emailVars, storeVars, aggVars>>

\* await self._save_contacts(cursor, brand_id, contacts), in the transaction
SaveContacts(t) ==
    /\ pc = "tasks"
    /\ running = t
    /\ tasks[t].pc = "contacts"
    /\ txn' = [txn EXCEPT !.contacts =
                  save_contacts(txn.contacts, tasks[t].brand_id, tasks[t].d.contacts, FALSE, 0)]
    /\ tasks' = [tasks EXCEPT ![t].pc = "commit", ![t].wrote = TRUE]
    /\ running' = Yield(t, "commit")
    /\ UNCHANGED <<opsVars, phoneVars, emailVars, storeVars, aggVars>>

\* conn.commit() and return brand_id
Commit(t) ==
    /\ pc = "tasks"
    /\ running = t
    /\ tasks[t].pc = "commit"
    /\ brands' = txn.brands
    /\ contacts' = txn.contacts
    /\ txn' = NoTxn
    /\ tasks' = [tasks EXCEPT ![t].ret = tasks[t].brand_id, ![t].pc = "done"]
    /\ running' = Yield(t, "done")
    /\ UNCHANGED <<opsVars, ret, phoneVars, emailVars, aggVars>>

\* the SELECT, the UPDATE or INSERT, or the commit raises: the with block is
\* left by the exception, the connection rolls its transaction back, the
\* except clause logs and returns 0
Fault(t) ==
    /\ pc = "tasks"
    /\ running = t
    /\ tasks[t].pc \in {"select", "write", "commit"}
    /\ tasks' = [tasks EXCEPT ![t].ret = 0, ![t].pc = "done", ![t].raised = tasks[t].pc]
    /\ txn' = IF txn.owner = t THEN NoTxn ELSE txn
    /\ running' = Yield(t, "done")
    /\ UNCHANGED <<opsVars, phoneVars, emailVars, storeVars, aggVars>>

TaskNext ==
    \E t \in Tasks :
        Resume(t) \/ Select(t) \/ Write(t) \/ SaveContacts(t) \/ Commit(t) \/ Fault(t)

\* two concurrent save_brand calls
TaskSpec == TaskInit /\ [][TaskNext]_vars

(***************************************************************************)
(* ContactFinderAgent._parse_contact_results and                           *)
(* helpers.create_contact_summary                                          *)
(***************************************************************************)

MaxMatches == 2

MaxContacts == 2

\* strings the phone patterns match in a text: 08\d{8,11}, \+62\s?8\d{8,11},
\* and twice \b\d{4}[-.\s]?\d{4}[-.\s]?\d{3,4}\b
PhoneMatches ==
    { <<"0", "8", "1", "2", "3", "4", "5", "6", "7", "8", "9", "0">>,
      <<"+", "6", "2", " ", "8", "1", "2", "3", "4", "5", "6", "7", "8", "9", "0">>,
      <<"1", "2", "3", "4", "-", "5", "6", "7", "8", "-", "9", "0", "1">>,
      <<"0", "0", "8", "2", "-", "9", "8", "2", "1", "-", "1", "2", "3", "4">> }

\* strings the WhatsApp patterns capture: the digits of a wa.me link, or a
\* number after "whatsapp", "WA" or "hubungi"
WhatsAppMatches ==
    { <<"6", "2", "8", "1", "2", "3", "4", "5", "6", "7", "8", "9", "0">>,
      <<"0", "8", "1", "2", "3", "4", "5", "6", "7", "8", "9", "0">>,
      <<"0", "0", "8", "2", "9", "8", "2", "1", "1", "2", "3", "4">> }

\* strings the e-mail pattern matches
EmailMatches == <<<<"x", "@", "y", ".", "i", "d">>, <<"S", "a", "l", "e", "s", "@", "A", "c", "m", "e", ".", "i", "d">>>>

\* a match of the pattern instagram\.com/([a-zA-Z0-9._]+)
SocialMatches == << [platform |-> "instagram", match |-> <<"a", "c", "m", "e">>] >>

Range(seq) == {seq[k] : k \in 1..Len(seq)}

\* the text as the patterns see it: the matches of the phone patterns and of
\* the WhatsApp patterns in the order of re.findall, and either no e-mail and
\* no profile link or the two e-mails and the profile link
MatchInputs ==
    { [phone |-> p, whatsapp |-> w, email |-> o[1], social |-> o[2]] :
        p \in SeqsUpTo(PhoneMatches, MaxMatches),
        w \in SeqsUpTo(WhatsAppMatches, MaxMatches),
        o \in {<<<<>>, <<>>>>, <<EmailMatches, SocialMatches>>} }

\* the string _clean_phone_number hands to the library
Rewritten(match) == AgentPrefixRules(ReSub(match))

\* the answers of phonenumbers for the strings handed to it and of
\* email_validator for the e-mails: each a function of the string
Oracles(m) ==
    LET handed == {Rewritten(r) : r \in Range(m.phone) \cup Range(m.whatsapp)}
    IN  { [phone |-> f, email |-> g] :
            f \in {h \in [handed -> UNION {LibOutcomes(c) : c \in handed}] :
                      \A c \in handed : h[c] \in LibOutcomes(c)},
            g \in [Range(m.email) -> BOOLEAN] }

\* faulty variant: the loop is left at the first match that is not a number
RECURSIVE CleanedContactsStopAtFailure(_, _, _)
CleanedContactsStopAtFailure(type, raws, lib) ==
    IF raws = <<>> THEN <<>>
    ELSE LET v == ContactFinderAgent_clean_phone_number(Head(raws), lib[Rewritten(Head(raws))])
         IN  IF v = None THEN <<>>
             ELSE <<[type |-> type, value |-> v]>> \o CleanedContactsStopAtFailure(type, Tail(raws), lib)

\* for match in matches: cleaned_phone = self._clean_phone_number(match);
\* if cleaned_phone: contacts.append({'type': type, 'value': cleaned_phone, ..})
RECURSIVE CleanedContacts(_, _, _)
CleanedContacts(type, raws, lib) ==
    IF raws = <<>> THEN <<>>
    ELSE LET v == ContactFinderAgent_clean_phone_number(Head(raws), lib[Rewritten(Head(raws))])
         IN  (IF v # None THEN <<[type |-> type, value |-> v]>> ELSE <<>>)
                 \o CleanedContacts(type, Tail(raws), lib)

\* for email in email_matches: if self._validate_email_address(email): append
\* with the value email.lower()
RECURSIVE EmailContacts(_, _)
EmailContacts(emails, lib) ==
    IF emails = <<>> THEN <<>>
    ELSE (IF lib[Head(emails)] THEN <<[type |-> "email", value |-> Lower(Head(emails))]>> ELSE <<>>)
             \o EmailContacts(Tail(emails), lib)

PlatformName == [instagram |-> <<"i", "n", "s", "t", "a", "g", "r", "a", "m">>]

SocialType == [instagram |-> "social_instagram"]

SocialTypes == {SocialType[pf] : pf \in DOMAIN SocialType}

\* contact_type.replace('social_', '')
PlatformOfType == [social_instagram |-> PlatformName["instagram"]]

SocialContacts(found) ==
    [k \in 1..Len(found) |->
        [type  |-> SocialType[found[k].platform],
         value |-> PlatformName[found[k].platform] \o <<".", "c", "o", "m", "/">> \o found[k].match]]

\* _extract_all_contacts: phone numbers, then e-mails, then WhatsApp numbers,
\* then profile links
extract_all_contacts(m, lib) ==
    CleanedContacts("phone", m.phone, lib.phone)
        \o EmailContacts(m.email, lib.email)
        \o CleanedContacts("whatsapp", m.whatsapp, lib.phone)
        \o SocialContacts(m.social)

NoGroups == [seen |-> {}, whatsapp |-> <<>>, phone |-> <<>>, email |-> <<>>, social |-> <<>>]

\* faulty variant: the body of the loop without the test on seen_values
AddContactNoSeen(g, contact) ==
    IF contact.type = "whatsapp"
       \/ (contact.type = "phone" /\ StartsWith(contact.value, <<"+", "6", "2">>))
        THEN [g EXCEPT !.seen = @ \cup {contact.value}, !.whatsapp = Append(@, contact.value)]
    ELSE IF contact.type = "phone"
        THEN [g EXCEPT !.seen = @ \cup {contact.value}, !.phone = Append(@, contact.value)]
    ELSE IF contact.type = "email"
        THEN [g EXCEPT !.seen = @ \cup {contact.value}, !.email = Append(@, contact.value)]
    ELSE IF contact.type \in SocialTypes
        THEN [g EXCEPT !.seen = @ \cup {contact.value},
                       !.social = Append(@, PlatformOfType[contact.type] \o <<":", " ">> \o contact.value)]
    ELSE [g EXCEPT !.seen = @ \cup {contact.value}]

\* the body of the loop of _parse_contact_results
AddContact(g, contact) ==
    IF contact.value \in g.seen THEN g
    ELSE IF contact.type = "whatsapp"
            \/ (contact.type = "phone" /\ StartsWith(contact.value, <<"+", "6", "2">>))
        THEN [g EXCEPT !.seen = @ \cup {contact.value}, !.whatsapp = Append(@, contact.value)]
    ELSE IF contact.type = "phone"
        THEN [g EXCEPT !.seen = @ \cup {contact.value}, !.phone = Append(@, contact.value)]
    ELSE IF contact.type = "email"
        THEN [g EXCEPT !.seen = @ \cup {contact.value}, !.email = Append(@, contact.value)]
    ELSE IF contact.type \in SocialTypes
        THEN [g EXCEPT !.seen = @ \cup {contact.value},
                       !.social = Append(@, PlatformOfType[contact.type] \o <<":", " ">> \o contact.value)]
    ELSE [g EXCEPT !.seen = @ \cup {contact.value}]

\* grouped_contacts and seen_values after the first n candidates
RECURSIVE Grouped(_, _)
Grouped(candidates, n) ==
    IF n = 0 THEN NoGroups ELSE AddContact(Grouped(candidates, n - 1), candidates[n])

\* the dict result of _parse_contact_results; the function returns [] when
\* every bucket is empty
ParseResult(candidates) ==
    LET g == Grouped(candidates, Len(candidates))
    IN  [whatsapp |-> g.whatsapp, phone |-> g.phone, email |-> g.email, social |-> g.social,
         total |-> Cardinality(g.seen)]

ParseInit ==
    /\ matches \in MatchInputs
    /\ oracle \in Oracles(matches)
    /\ all_contacts = <<>>
    /\ parsed = NoBuckets
    /\ brand_data = NoBrandData
    /\ summary = NoSummary
    /\ StoreIdle
    /\ TaskIdle
    /\ raw = <<>>
    /\ PhoneIdle
    /\ OpsIdle
    /\ EmailIdle
    /\ pc = "parse"

\* _parse_contact_results(agent_result, original_query)
ParseContactResults ==
    /\ pc = "parse"
    /\ all_contacts' = extract_all_contacts(matches, oracle)
    /\ parsed' = ParseResult(extract_all_contacts(matches, oracle))
    /\ pc' = "parsed"
    /\ UNCHANGED <<opsVars, matches, oracle, brand_data, summary, raw, fn, stripped, rewritten, libres,
                   result, again, forms, emailVars, storeVars, taskVars>>

\* contact strings of a brand record
SummaryContacts ==
    { <<"0", "8", "1", "2", "3", "4", "5", "6", "7", "8", "9", "0">>,
      <<"W", "A", ":", " ", "0", "8", "1", "2", "3", "4", "5", "6", "7", "8", "9", "0">>,
      <<"w", "a", ".", "m", "e", "/", "6", "2", "8", "1", "2", "3", "4", "5", "6", "7", "8", "9", "0">>,
      <<"s", "a", "l", "e", "s", "@", "a", "c", "m", "e", ".", "i", "d">>,
      <<"i", "n", "s", "t", "a", "g", "r", "a", "m", ".", "c", "o", "m", "/", "a", "c", "m", "e">> }

Number0812 == <<"0", "8", "1", "2", "3", "4", "5", "6", "7", "8", "9", "0">>

\* brand records: a contact list and the four typed fields
SummaryInputs ==
    { [contacts |-> c, whatsapp_numbers |-> w, phone_numbers |-> p,
       email_addresses |-> e, social_media |-> sm] :
        c \in SeqsUpTo(SummaryContacts, MaxContacts),
        w \in {<<>>, <<Number0812>>},
        p \in {<<>>, <<Number0812>>},
        e \in {<<>>, <<<<"s", "a", "l", "e", "s", "@", "a", "c", "m", "e", ".", "i", "d">>>>},
        sm \in {<<>>, <<<<"i", "n", "s", "t", "a", "g", "r", "a", "m", ".", "c", "o", "m", "/", "a", "c", "m", "e">>>>} }

\* the if/elif chain of create_contact_summary on one contact string
SummaryKind(contact) ==
    IF Contains(Lower(contact), <<"w", "h", "a", "t", "s", "a", "p", "p">>)
       \/ Contains(Lower(contact), <<"w", "a", ".">>)
        THEN "whatsapp"
    ELSE IF Contains(contact, <<"@">>) THEN "email"
    ELSE IF \E k \in 1..Len(contact) : contact[k] \in Digits THEN "phone"
    ELSE IF \E pf \in Platforms \ {<<"y", "o", "u", "t", "u", "b", "e">>} : Contains(Lower(contact), pf)
        THEN "social"
    ELSE "none"

OfKind(list, kind) == {c \in Range(list) : SummaryKind(c) = kind}

\* create_contact_summary(brand_data): the contact list by kind, extended by
\* the typed fields, each bucket made a set, the total the sum of the sizes
create_contact_summary(b) ==
    LET wa == OfKind(b.contacts, "whatsapp") \cup Range(b.whatsapp_numbers)
        em == OfKind(b.contacts, "email") \cup Range(b.email_addresses)
        ph == OfKind(b.contacts, "phone") \cup Range(b.phone_numbers)
        so == OfKind(b.contacts, "social") \cup Range(b.social_media)
    IN  [whatsapp |-> wa, email |-> em, phone |-> ph, social |-> so,
         total |-> Cardinality(wa) + Cardinality(em) + Cardinality(ph) + Cardinality(so)]

SummaryInit ==
    /\ brand_data \in SummaryInputs
    /\ summary = NoSummary
    /\ matches = NoMatches
    /\ oracle = <<>>
    /\ all_contacts = <<>>
    /\ parsed = NoBuckets
    /\ StoreIdle
    /\ TaskIdle
    /\ raw = <<>>
    /\ PhoneIdle
    /\ OpsIdle
    /\ EmailIdle
    /\ pc = "summary"

CreateContactSummary ==
    /\ pc = "summary"
    /\ summary' = create_contact_summary(brand_data)
    /\ pc' = "summarised"
    /\ UNCHANGED <<opsVars, matches, oracle, all_contacts, parsed, brand_data, raw, fn, stripped,
                   rewritten, libres, result, again, forms, emailVars, storeVars, taskVars>>

AggInit == ParseInit \/ SummaryInit

AggNext == ParseContactResults \/ CreateContactSummary

\* the aggregator and the summary, each run on one drawn input
AggSpec == AggInit /\ [][AggNext]_vars

(***************************************************************************)
(* Properties of the normalisers, checked under NormSpec                   *)
(***************************************************************************)

Plus62 == <<"+", "6", "2">>

Sub81234567890 == <<"8", "1", "2", "3", "4", "5", "6", "7", "8", "9", "0">>

\* C1: the local form 0d, the bare form 62d and the international form +62d of
\* one subscriber number d (digits, first digit 8) get the same result from
\* either implementation, and a result that is not None is +62d; for
\* d = 81234567890 the result is +6281234567890.
C1_FormatEquivalence ==
    pc = "forms" =>
        /\ forms[1] = forms[2]
        /\ forms[2] = forms[3]
        /\ forms[1] # None => forms[1] = Plus62 \o raw
        /\ raw = Sub81234567890 => forms[3] = Plus62 \o Sub81234567890

C1_Witness ==
    /\ pc = "forms"
    /\ fn = "helpers"
    /\ raw = Sub81234567890
    /\ forms[1] = Plus62 \o Sub81234567890

\* C2: a result v that is not None, normalised again by the implementation
\* that produced it, is v.
C2_Idempotent == pc = "refed" => again = result

C2_Witness ==
    /\ pc = "refed"
    /\ fn = "helpers"
    /\ result # raw
    /\ again = result

HasEmailShape(s) ==
    \E i \in 2..Len(s) : \E j \in (i + 2)..(Len(s) - 1) : s[i] = "@" /\ s[j] = "."

\* C3: helpers.clean_phone_number returns None for 12345 and for every input
\* whose stripped and rewritten form does not start with +62 or is not 12 to 15
\* characters long; helpers.validate_email_address returns False for every
\* string that is not of the shape local @ domain . tld.
C3_Rejection ==
    /\ (pc = "done" /\ fn = "helpers") =>
          /\ raw = <<"1", "2", "3", "4", "5">> => result = None
          /\ raw = <<>> => result = None
          /\ (raw # <<>> /\ ~(StartsWith(rewritten, Plus62) /\ Len(rewritten) \in 12..15))
                => result = None
    /\ pc = "emailed" => (~HasEmailShape(email) => emailOK = FALSE)

C3_Witness ==
    /\ pc = "done"
    /\ fn = "helpers"
    /\ raw = <<"1", "2", "3", "4", "5">>
    /\ result = None

\* the result came from the "basic validation" and not from the library
ByFallback == fn = "helpers" \/ (fn = "agent" /\ libres = Invalid)

C5_PlusNoSeparators ==
    (pc = "done" /\ result # None) =>
        /\ result[1] = "+"
        /\ \A k \in 1..Len(result) : result[k] \notin {" ", "-", "(", ")"}

C5_Witness ==
    /\ pc = "done"
    /\ fn = "agent"
    /\ libres # Invalid
    /\ raw = <<"+", "6", "2", " ", "8", "1", "2", "-", "3", "4", "5", "6", "-", "7", "8", "9", "0">>
    /\ result = Plus62 \o Sub81234567890

\* the four prefix rules of the documentation, in its order
RuleCond(k, c) ==
    CASE k = 1 -> StartsWith(c, <<"0", "8">>)
      [] k = 2 -> StartsWith(c, <<"6", "2">>) /\ ~StartsWith(c, <<"+">>)
      [] k = 3 -> StartsWith(c, <<"8">>) /\ Len(c) >= 9
      [] k = 4 -> ~StartsWith(c, <<"+">>) /\ Len(c) >= 10

RuleApply(k, c) ==
    CASE k = 1 -> Plus62 \o Tail(c)
      [] k = 2 -> <<"+">> \o c
      [] k = 3 -> Plus62 \o c
      [] k = 4 -> Plus62 \o c

\* the result of a chain of the first n rules: the first rule whose condition
\* holds is applied, and no other
Chain(n, c) ==
    LET hits == {k \in 1..n : RuleCond(k, c)}
    IN  IF hits = {} THEN c
        ELSE RuleApply(CHOOSE k \in hits : \A m \in hits : k <= m, c)

\* C6 as stated: both implementations rewrite by the chain of the four rules.
C6_FourRuleChain == (pc = "done" /\ raw # <<>>) => rewritten = Chain(4, stripped)

\* C6 as amended: helpers.clean_phone_number rewrites by the chain of the four
\* rules; ContactFinderAgent._clean_phone_number by the chain of the first
\* three, and leaves a string that only the fourth rule matches as it is.
C6_ChainPerImplementation ==
    /\ (pc = "done" /\ fn = "helpers" /\ raw # <<>>) => rewritten = Chain(4, stripped)
    /\ (pc = "done" /\ fn = "agent") => rewritten = Chain(3, stripped)

\* an input that satisfies the conditions of the first and of the fourth rule
C6_Witness ==
    /\ pc = "done"
    /\ fn = "helpers"
    /\ RuleCond(1, stripped)
    /\ RuleCond(4, stripped)
    /\ rewritten = Plus62 \o Tail(stripped)


(***************************************************************************)
(* Properties of the contact store, checked under Spec                     *)
(***************************************************************************)

\* the documented lookup: equal names or equal websites, empty strings excepted
DocumentedMatch(row, d) ==
    \/ Get(d.name, "") # "" /\ row.name = Get(d.name, "")
    \/ Get(d.website, "") # "" /\ row.website = Get(d.website, "")

\* the step is a call save_brand(d) that returned without an exception
IsSaveBrand(d) == SaveBrandCall(d, FALSE, 0)

\* the call took an existing row as its target
HitExisting == ret' \in 1..Len(brands) /\ Len(brands') = Len(brands)

ScalarColumns == {"website", "category", "location", "business_type", "description"}

ContactSet(list) == {list[k] : k \in 1..Len(list)}

RowsOf(rows, brand_id) ==
    {[contact_type |-> rows[k].contact_type, contact_value |-> rows[k].contact_value] :
        k \in {m \in 1..Len(rows) : rows[m].brand_id = brand_id}}

\* C7: the row a call of save_brand takes as its target has the non-empty name
\* of the call or the non-empty website of the call.
C7_NoEmptyMatch ==
    [][\A d \in BrandInputs :
          (IsSaveBrand(d) /\ HitExisting) => DocumentedMatch(brands[ret'], d)]_vars

\* C8: a call of save_brand that takes an existing row as its target and gives
\* an empty or no value for a scalar column leaves a non-empty value of that
\* column as it is.
C8_PartialUpdate ==
    [][\A d \in BrandInputs : \A col \in ScalarColumns :
          (IsSaveBrand(d) /\ HitExisting /\ Get(d[col], "") = "" /\ brands[ret'][col] # "")
              => brands'[ret'][col] = brands[ret'][col]]_vars

\* C9: after a call of save_brand that takes an existing row as its target, the
\* contacts the entity had are still in its contact list and in the contacts
\* table, beside the contacts of the call.
C9_ContactUnion ==
    [][\A d \in BrandInputs :
          (IsSaveBrand(d) /\ HitExisting) =>
              /\ ContactSet(brands[ret'].contacts) \subseteq ContactSet(brands'[ret'].contacts)
              /\ ContactSet(d.contacts) \subseteq ContactSet(brands'[ret'].contacts)
              /\ RowsOf(contacts, ret') \subseteq RowsOf(contacts', ret')]_vars

\* C10: a call of save_brand whose non-empty name or website is that of an
\* existing entity adds no row and returns the id of such an entity.
C10_StableIdentity ==
    [][\A d \in BrandInputs :
          (IsSaveBrand(d) /\ \E id \in 1..Len(brands) : DocumentedMatch(brands[id], d))
              => /\ Len(brands') = Len(brands)
                 /\ ret' \in {id \in 1..Len(brands) : DocumentedMatch(brands[id], d)}]_vars

\* the rows of the contacts table that belong to one brand, in table order
ContactsOf(rows, brand_id) ==
    LET Mine(r) == r.brand_id = brand_id IN SelectSeq(rows, Mine)

\* C12: in every state of the store, the contacts table holds for every entity
\* exactly the rows of the contact list saved with the entity row, also after a
\* call in which a statement of the contact write raised.
C12_Atomic ==
    \A id \in 1..Len(brands) :
        ContactsOf(contacts, id) = ContactRows(id, brands[id].contacts, Len(brands[id].contacts))

\* C13: no entity has two rows of the contacts table with the same contact_type
\* and the same contact_value.
C13_UniqueContacts ==
    \A i \in 1..Len(contacts) : \A j \in 1..Len(contacts) :
        (i # j /\ contacts[i].brand_id = contacts[j].brand_id)
            => ~(/\ contacts[i].contact_type = contacts[j].contact_type
                 /\ contacts[i].contact_value = contacts[j].contact_value)


(***************************************************************************)
(* Properties of concurrent save_brand calls, checked under TaskSpec       *)
(***************************************************************************)

\* save_brand(d) run alone on the tables db
ApplySave(db, d) ==
    LET e  == Existing(db.brands, d)
        id == IF e # 0 THEN e ELSE LastRowId(db.brands)
    IN  [ brands   |-> IF e # 0 THEN [db.brands EXCEPT ![e] = Updated(@, d)]
                                ELSE Append(db.brands, Inserted(d)),
          contacts |-> save_contacts(db.contacts, id, d.contacts, FALSE, 0) ]

\* the first call run to its end, then the second
Serial(first, second) ==
    ApplySave(ApplySave([brands |-> <<>>, contacts |-> <<>>], first), second)

AllDone == pc = "tasks" /\ \A t \in Tasks : tasks[t].pc = "done"

NoTables == [brands |-> <<>>, contacts |-> <<>>]

\* the tables after the calls of the tasks in order, run one after the other
RECURSIVE SerialOf(_)
SerialOf(order) ==
    IF order = <<>> THEN NoTables
    ELSE ApplySave(SerialOf(SubSeq(order, 1, Len(order) - 1)), tasks[order[Len(order)]].d)

\* the tasks whose call went through, in either order
Orders(done) == {o \in SeqsUpTo(done, Cardinality(done)) : Len(o) = Cardinality(done) /\ Range(o) = done}

\* C11: a call of save_brand that went through returns an id of a row, greater
\* than 0; a call in which the SELECT, the entity write or the commit raised
\* returns 0 and leaves no trace in the tables, and when it was the SELECT or
\* the entity write that raised, _save_contacts was not called.
C11_ReturnValue ==
    /\ \A t \in Tasks : (pc = "tasks" /\ tasks[t].pc = "done") =>
          /\ tasks[t].raised = "none" => (tasks[t].ret >= 1 /\ tasks[t].ret <= Len(brands))
          /\ tasks[t].raised # "none" => tasks[t].ret = 0
          /\ tasks[t].raised \in {"select", "write"} => ~tasks[t].wrote
    /\ AllDone =>
          [brands |-> brands, contacts |-> contacts]
              \in {SerialOf(o) : o \in Orders({t \in Tasks : tasks[t].raised = "none"})}

\* the entity write of a call raised after another call had saved an entity
C11_Witness ==
    /\ AllDone
    /\ tasks[1].raised = "none"
    /\ tasks[1].ret = 1
    /\ tasks[2].raised = "write"
    /\ tasks[2].ret = 0
    /\ Len(brands) = 1
    /\ Len(contacts) >= 1
    /\ tasks[2].d.contacts # tasks[1].d.contacts

Canonical0812 == Plus62 \o Sub81234567890

Count(seq, v) == Cardinality({k \in 1..Len(seq) : seq[k] = v})

NoRepeat(seq) == \A i \in 1..Len(seq) : \A j \in 1..Len(seq) : i # j => seq[i] # seq[j]

\* the values of the candidates of one type
ValuesOf(type) == {all_contacts[k].value : k \in {m \in 1..Len(all_contacts) : all_contacts[m].type = type}}

\* C15: no value occurs twice within a bucket of the result of
\* _parse_contact_results, and when the matches hold the number 81234567890 in
\* any of its written forms, +6281234567890 is in the whatsapp bucket once and
\* not in the phone bucket.
C15_DedupCanonical ==
    pc = "parsed" =>
        /\ NoRepeat(parsed.whatsapp)
        /\ NoRepeat(parsed.phone)
        /\ NoRepeat(parsed.email)
        /\ NoRepeat(parsed.social)
        /\ (\E r \in Range(matches.phone) \cup Range(matches.whatsapp) : Rewritten(r) = Canonical0812)
              => /\ Count(parsed.whatsapp, Canonical0812) = 1
                 /\ Count(parsed.phone, Canonical0812) = 0

\* the number in three written forms, as a wa.me link, after "WhatsApp" and as
\* a +62 number with a space
C15_Witness ==
    /\ pc = "parsed"
    /\ matches.phone = <<<<"+", "6", "2", " ", "8", "1", "2", "3", "4", "5", "6", "7", "8", "9", "0">>, <<"0", "8", "1", "2", "3", "4", "5", "6", "7", "8", "9", "0">>>>
    /\ matches.whatsapp = <<<<"6", "2", "8", "1", "2", "3", "4", "5", "6", "7", "8", "9", "0">>, <<"0", "8", "1", "2", "3", "4", "5", "6", "7", "8", "9", "0">>>>
    /\ parsed.whatsapp = <<Canonical0812>>
    /\ parsed.phone = <<>>
    /\ parsed.total = 1

\* C16: a number that a phone pattern matched and no WhatsApp pattern matched
\* is in the phone bucket and not in the whatsapp bucket.
C16_PhoneOnlyInPhone ==
    pc = "parsed" =>
        \A v \in ValuesOf("phone") \ ValuesOf("whatsapp") :
            /\ v \in Range(parsed.phone)
            /\ v \notin Range(parsed.whatsapp)

\* C17: a number that a WhatsApp pattern matched is in the whatsapp bucket and
\* not in the phone bucket, and no value is in the whatsapp bucket and in the
\* phone bucket, of the result of _parse_contact_results and of the summary.
C17_WhatsAppExclusive ==
    /\ pc = "parsed" =>
          /\ \A v \in ValuesOf("whatsapp") :
                v \in Range(parsed.whatsapp) /\ v \notin Range(parsed.phone)
          /\ Range(parsed.whatsapp) \cap Range(parsed.phone) = {}
    /\ pc = "summarised" => summary.whatsapp \cap summary.phone = {}

\* C18: the total is the number of distinct values of the four buckets taken
\* together, in the result of _parse_contact_results and in the summary.
C18_TotalDistinct ==
    /\ pc = "parsed" =>
          parsed.total = Cardinality(Range(parsed.whatsapp) \cup Range(parsed.phone)
                                        \cup Range(parsed.email) \cup Range(parsed.social))
    /\ pc = "summarised" =>
          summary.total = Cardinality(summary.whatsapp \cup summary.phone
                                         \cup summary.email \cup summary.social)

BucketSets(r) ==
    [whatsapp |-> Range(r.whatsapp), phone |-> Range(r.phone),
     email |-> Range(r.email), social |-> Range(r.social)]

\* C19: the candidates in any other order give buckets with the same values.
C19_OrderIndependent ==
    pc = "parsed" =>
        \A f \in Permutations(1..Len(all_contacts)) :
            BucketSets(ParseResult([k \in 1..Len(all_contacts) |-> all_contacts[f[k]]]))
                = BucketSets(parsed)

\* the matches that are normalised to a value
ValidOnly(m, lib) ==
    LET IsNumber(r) == ContactFinderAgent_clean_phone_number(r, lib.phone[Rewritten(r)]) # None
        IsAccepted(e) == lib.email[e]
    IN  [m EXCEPT !.phone = SelectSeq(@, IsNumber),
                  !.whatsapp = SelectSeq(@, IsNumber),
                  !.email = SelectSeq(@, IsAccepted)]

\* C20: the candidates and the result are those of the text without the
\* matches whose normalisation failed, and every match that is normalised to
\* a value has its value in the result.
C20_DropFailed ==
    pc = "parsed" =>
        /\ all_contacts = extract_all_contacts(ValidOnly(matches, oracle), oracle)
        /\ parsed = ParseResult(extract_all_contacts(ValidOnly(matches, oracle), oracle))
        /\ \A r \in Range(matches.phone) \cup Range(matches.whatsapp) :
              LET v == ContactFinderAgent_clean_phone_number(r, oracle.phone[Rewritten(r)])
              IN  v # None => v \in Range(parsed.whatsapp) \cup Range(parsed.phone)
        /\ \A e \in Range(matches.email) : oracle.email[e] => Lower(e) \in Range(parsed.email)

\* a number after a match that is no number, an e-mail after a rejected one
C20_Witness ==
    /\ pc = "parsed"
    /\ matches.phone = <<<<"1", "2", "3", "4", "-", "5", "6", "7", "8", "-", "9", "0", "1">>, <<"0", "8", "1", "2", "3", "4", "5", "6", "7", "8", "9", "0">>>>
    /\ oracle.phone[Rewritten(<<"1", "2", "3", "4", "-", "5", "6", "7", "8", "-", "9", "0", "1">>)] = Invalid
    /\ parsed.whatsapp = <<Canonical0812>>
    /\ matches.email = EmailMatches
    /\ ~oracle.email[EmailMatches[1]]
    /\ oracle.email[EmailMatches[2]]
    /\ parsed.email = <<Lower(EmailMatches[2])>>


(***************************************************************************)
(* BeautyBotAgent: sessions, the contact search and the WhatsApp request   *)
(***************************************************************************)

Users == {1, 2}

\* callback_data of the buttons; "wa_single" stands for the buttons no branch handles
Buttons ==
    {"scrape_brands", "find_contacts", "whatsapp_outreach", "view_database", "help",
     "back_to_menu", "wa_single"}

\* the stage button_handler leaves the user in; "none": the user has no entry in
\* user_sessions
StageAfterButton(stage, data) ==
    CASE data = "scrape_brands"     -> "scraping"
      [] data = "find_contacts"     -> "finding_contacts"
      [] data = "whatsapp_outreach" -> "whatsapp_outreach"
      [] data = "back_to_menu"      -> "menu"
      [] OTHER                      -> stage

\* helpers.validate_phone_number; valid is the answer of is_valid_number
validate_phone_number(phone, valid) ==
    IF phone = <<>> \/ clean_phone_number(phone) = None THEN FALSE
    ELSE IF LibE164(clean_phone_number(phone)) # {} THEN valid
    ELSE LET digits_only == SelectSeq(clean_phone_number(phone), LAMBDA c : c \in Digits)
         IN  /\ StartsWith(clean_phone_number(phone), <<"+", "6", "2">>)
             /\ Len(digits_only) >= 11
             /\ Len(digits_only) <= 15

\* phone_number.replace('+', '').replace(' ', '').replace('-', '')
SendUrlPhone(phone_number) == SelectSeq(phone_number, LAMBDA c : c \notin {"+", " ", "-"})

\* message.split("|", 1): the index of the first bar, 0 when there is none
FirstBar(message) ==
    IF \E k \in 1..Len(message) : message[k] = "|"
       THEN CHOOSE k \in 1..Len(message) :
                message[k] = "|" /\ \A j \in 1..(k - 1) : message[j] # "|"
       ELSE 0

\* the texts a user sends
Texts ==
    { <<"A", "c", "m", "e">>,
      Number0812 \o <<"|", "h", "i">>,
      <<" ", "+", "6", "2">> \o Tail(Number0812) \o <<" ", "|", "h", "i", "|", "x">>,
      <<"+", "6", "2", " ", "8", "1", "2", "-", "3", "4", "5", "6", "-", "7", "8", "9", "0", "|", "h", "i">>,
      <<"1", "2", "|", "h", "i">> }

\* what find_contacts can return for a query: _parse_contact_results of the
\* contacts the agent found
SearchResults ==
    { ParseResult(<<>>),
      ParseResult(<< [type |-> "phone", value |-> <<"+", "6", "2">> \o Tail(Number0812)],
                     [type |-> "email", value |-> EmailA] >>),
      ParseResult(<< [type |-> "phone", value |-> <<"0", "2", "1", "5", "5", "5", "0", "1", "0", "0">>] >>) }

\* any(grouped_contacts.values())
AnyBucket(r) == r.whatsapp # <<>> \/ r.phone # <<>> \/ r.email # <<>> \/ r.social # <<>>

\* the keys save_brand reads in the dict result of _parse_contact_results: the
\* dict has the keys query, whatsapp_numbers, phone_numbers, email_addresses,
\* social_media and total_contacts_found, and none of name, website, category,
\* location, business_type, description, contacts
ResultAsBrandData(r) == [name |-> Absent, website |-> Absent] @@ NoAttrs @@ [contacts |-> <<>>]

\* a brand saved before the bot's search: a name, no website, two contacts
AcmeBrand ==
    [name |-> "Acme", website |-> Absent, category |-> "Skincare", location |-> "Jakarta",
     business_type |-> "UMKM", description |-> "desc", contacts |-> <<EmailA, PhoneB>>]

BotInit ==
    /\ user_sessions = [u \in Users |-> "none"]
    /\ update = NoUpdate
    /\ \E db \in {NoTables, ApplySave(NoTables, AcmeBrand)} :
          brands = db.brands /\ contacts = db.contacts
    /\ ret = 0
    /\ DbIdle
    /\ bulk = NoBulk
    /\ req = NoReq
    /\ TaskIdle
    /\ AggIdle
    /\ raw = <<>>
    /\ PhoneIdle
    /\ EmailIdle
    /\ pc = "bot"

BotFrame == UNCHANGED <<phoneVars, emailVars, taskVars, aggVars, dbVars, bulk, req>>

\* start_command
StartCommand(u) ==
    /\ pc = "bot"
    /\ user_sessions' = [user_sessions EXCEPT ![u] = "menu"]
    /\ update' = [NoUpdate EXCEPT !.user = u, !.kind = "start"]
    /\ UNCHANGED storeVars
    /\ BotFrame

\* button_handler
ButtonHandler(u, data) ==
    /\ pc = "bot"
    /\ user_sessions' = [user_sessions EXCEPT ![u] = StageAfterButton(@, data)]
    /\ update' = [NoUpdate EXCEPT !.user = u, !.kind = "button"]
    /\ UNCHANGED storeVars
    /\ BotFrame

\* process_contact_search(update, query)
process_contact_search(u, query) ==
    \E r \in SearchResults :
        /\ update' = [NoUpdate EXCEPT !.user = u, !.kind = "message", !.text = query,
                                      !.searched = TRUE, !.found = r, !.saved = AnyBucket(r)]
        /\ IF AnyBucket(r) THEN SaveBrandCall(ResultAsBrandData(r), FALSE, 0)
                           ELSE UNCHANGED storeVars

\* process_whatsapp_message(update, message); browser: the driver could be started
process_whatsapp_message(u, message) ==
    LET k     == FirstBar(message)
        phone == Strip(SubSeq(message, 1, k - 1))
    IN  /\ UNCHANGED storeVars
        /\ \E valid \in BOOLEAN, browser \in BOOLEAN :
              update' = [NoUpdate EXCEPT
                            !.user = u, !.kind = "message", !.text = message,
                            !.sent = IF k # 0 /\ validate_phone_number(phone, valid)
                                        THEN phone ELSE None,
                            !.url  = IF k # 0 /\ validate_phone_number(phone, valid) /\ browser
                                        THEN SendUrlPhone(phone) ELSE None]

\* faulty variant: an unknown stage falls through to the contact search
DispatchDefaultSearch(stage) ==
    IF stage = "whatsapp_outreach" THEN "send" ELSE "search"

\* the branch handle_message takes for the sender's stage
Dispatch(stage) ==
    IF stage = "none" THEN "reply"
    ELSE IF stage = "finding_contacts" THEN "search"
    ELSE IF stage = "whatsapp_outreach" THEN "send"
    ELSE "reply"

\* handle_message
HandleMessage(u, message_text) ==
    /\ pc = "bot"
    /\ UNCHANGED user_sessions
    /\ CASE Dispatch(user_sessions[u]) = "search" -> process_contact_search(u, message_text)
         [] Dispatch(user_sessions[u]) = "send"   -> process_whatsapp_message(u, message_text)
         [] OTHER -> /\ update' = [NoUpdate EXCEPT !.user = u, !.kind = "message",
                                                   !.text = message_text]
                     /\ UNCHANGED storeVars
    /\ BotFrame

BotNext ==
    \E u \in Users :
        \/ StartCommand(u)
        \/ \E data \in Buttons : ButtonHandler(u, data)
        \/ \E t \in Texts : HandleMessage(u, t)

\* the bot under any sequence of updates of two users
BotSpec == BotInit /\ [][BotNext]_vars


(***************************************************************************)
(* DatabaseManager: the queries, the outreach log and the clean-up         *)
(***************************************************************************)

MaxClock == 2

MaxUpserts == 3

MaxLog == 1

\* LIMIT 50
PageSize == 50

\* the characters of the column values the calls below write
Text ==
    [v \in {"", "Acme", "Shea", "Spa", "Soap", "Medan", "SME", "desc"} |->
        CASE v = ""      -> <<>>
          [] v = "Acme"  -> <<"A", "c", "m", "e">>
          [] v = "Shea"  -> <<"S", "h", "e", "a">>
          [] v = "Spa"   -> <<"S", "p", "a">>
          [] v = "Soap"  -> <<"S", "o", "a", "p">>
          [] v = "Medan" -> <<"M", "e", "d", "a", "n">>
          [] v = "SME"   -> <<"S", "M", "E">>
          [] v = "desc"  -> <<"d", "e", "s", "c">>]

\* the operator LIKE of SQLite: % matches any run of characters, _ matches one
\* character, letters match without regard to case
RECURSIVE Like(_, _)
Like(s, pattern) ==
    IF pattern = <<>> THEN s = <<>>
    ELSE IF Head(pattern) = "%"
        THEN Like(s, Tail(pattern)) \/ (s # <<>> /\ Like(Tail(s), pattern))
    ELSE /\ s # <<>>
         /\ Head(pattern) = "_" \/ Lower(<<Head(pattern)>>) = Lower(<<Head(s)>>)
         /\ Like(Tail(s), Tail(pattern))

\* the number the aggregator puts into the whatsapp bucket of a search result
WhatsAppBucket ==
    ParseResult(<< [type |-> "phone", value |-> <<"+", "6", "2">> \o Tail(Number0812)] >>).whatsapp

\* the brand_data of the save_brand calls
QueryInputs ==
    { [name |-> "Acme", website |-> "acme.id", category |-> "Spa", location |-> "Medan",
       business_type |-> "SME", description |-> "desc", contacts |-> <<EmailA>>],
      [name |-> "Shea", website |-> Absent, category |-> "Soap", location |-> Absent,
       business_type |-> Absent, description |-> Absent, contacts |-> WhatsAppBucket] }

\* the arguments of search_brands; "" is a filter that is not given
SearchInputs ==
    { [query |-> a[1], category |-> a[2], business_type |-> a[3], location |-> a[4]] :
        a \in { <<<<>>, "", "", <<>>>>,
                <<<<"a", "c", "m", "e">>, "", "", <<>>>>,
                <<<<"A", "_", "m", "e">>, "", "", <<>>>>,
                <<<<"S">>, "Spa", "", <<>>>>,
                <<<<>>, "", "SME", <<"m", "e", "d">>>> } }

\* the WHERE clause search_brands builds; is_active is 1 in every row, since no
\* statement of the program sets it
SearchWhere(row, a) ==
    /\ a.query # <<>> =>
          \E col \in {row.name, row.category, row.location, row.description} :
              Like(Text[col], <<"%">> \o a.query \o <<"%">>)
    /\ a.category # "" => row.category = a.category
    /\ a.business_type # "" => row.business_type = a.business_type
    /\ a.location # <<>> => Like(Text[row.location], <<"%">> \o a.location \o <<"%">>)

\* the lists of the elements of S in an order that puts no element after one
\* that Before puts it before; elements that Before does not order come in any
\* order
Orderings(S, Before(_, _)) ==
    { p \in [1..Cardinality(S) -> S] :
        /\ \A i, j \in 1..Cardinality(S) : i # j => p[i] # p[j]
        /\ \A i, j \in 1..Cardinality(S) : i < j => ~Before(p[j], p[i]) }

\* the first n elements
Limit(rows, n) == SubSeq(rows, 1, IF Len(rows) < n THEN Len(rows) ELSE n)

\* the names in the order of the BINARY collation
NameRank == [n \in {"Acme", "Shea", "Unknown"} |-> CASE n = "Acme" -> 1 [] n = "Shea" -> 2 [] OTHER -> 3]

QueryInit ==
    /\ now = 0
    /\ updated_at = <<>>
    /\ upserts = <<>>
    /\ outreach_log = <<>>
    /\ op = NoOp
    /\ StoreIdle
    /\ BotIdle
    /\ bulk = NoBulk
    /\ req = NoReq
    /\ TaskIdle
    /\ AggIdle
    /\ raw = <<>>
    /\ PhoneIdle
    /\ EmailIdle
    /\ pc = "db"

QueryFrame == UNCHANGED <<phoneVars, emailVars, taskVars, aggVars, botVars, bulk, req>>

\* a second passes
Tick ==
    /\ pc = "db"
    /\ now < MaxClock
    /\ now' = now + 1
    /\ UNCHANGED <<storeVars, updated_at, upserts, outreach_log, op>>
    /\ QueryFrame

\* save_brand(d): the INSERT takes the default CURRENT_TIMESTAMP, the UPDATE
\* sets updated_at = CURRENT_TIMESTAMP
SaveBrandAt ==
    /\ pc = "db"
    /\ Len(upserts) < MaxUpserts
    /\ \E d \in QueryInputs :
          /\ SaveBrandCall(d, FALSE, 0)
          /\ updated_at' = IF Existing(brands, d) # 0
                              THEN [updated_at EXCEPT ![Existing(brands, d)] = now]
                              ELSE Append(updated_at, now)
          /\ upserts' = Append(upserts, IF Existing(brands, d) # 0 THEN Existing(brands, d)
                                                                   ELSE LastRowId(brands))
          /\ op' = [name |-> "save_brand", arg |-> d, rows |-> <<>>]
    /\ UNCHANGED <<now, outreach_log>>
    /\ QueryFrame

\* search_brands(query, filters): the ids of the rows returned, in their order
SearchBrands ==
    /\ pc = "db"
    /\ \E a \in SearchInputs :
       \E sorted \in Orderings({id \in 1..Len(brands) : SearchWhere(brands[id], a)},
                               LAMBDA x, y : updated_at[x] > updated_at[y]) :
          op' = [name |-> "search_brands", arg |-> a, rows |-> Limit(sorted, PageSize)]
    /\ UNCHANGED <<storeVars, now, updated_at, upserts, outreach_log>>
    /\ QueryFrame

\* get_contacts_by_type(contact_type): the join of contacts and brands, ORDER BY b.name
GetContactsByType ==
    /\ pc = "db"
    /\ \E contact_type \in {"whatsapp", "phone", "email"} :
       \E sorted \in Orderings({k \in 1..Len(contacts) : contacts[k].contact_type = contact_type},
                               LAMBDA x, y : NameRank[brands[contacts[x].brand_id].name]
                                                < NameRank[brands[contacts[y].brand_id].name]) :
          op' = [name |-> "get_contacts_by_type", arg |-> contact_type,
                 rows |-> [k \in 1..Len(sorted) |->
                              [value      |-> contacts[sorted[k]].contact_value,
                               type       |-> contacts[sorted[k]].contact_type,
                               brand_name |-> brands[contacts[sorted[k]].brand_id].name,
                               brand_id   |-> contacts[sorted[k]].brand_id]]]
    /\ UNCHANGED <<storeVars, now, updated_at, upserts, outreach_log>>
    /\ QueryFrame

\* log_outreach: one INSERT, sent_at takes the default CURRENT_TIMESTAMP; the
\* row number is the AUTOINCREMENT id, a deleted row keeps its place with
\* present = FALSE
LogOutreach ==
    /\ pc = "db"
    /\ Len(outreach_log) < MaxLog
    /\ \E status \in {"sent", "failed"} :
          /\ outreach_log' = Append(outreach_log,
                 [brand_id |-> 1, contact_value |-> PhoneB, message_type |-> "whatsapp",
                  message_content |-> "hi", status |-> status, sent_at |-> now, present |-> TRUE])
          /\ op' = [name |-> "log_outreach", arg |-> status, rows |-> <<Len(outreach_log) + 1>>]
    /\ UNCHANGED <<storeVars, now, updated_at, upserts>>
    /\ QueryFrame

\* cleanup_old_data(days): DELETE FROM outreach_log WHERE sent_at < now - days,
\* days counted in ticks of the clock
CleanupOldData ==
    /\ pc = "db"
    /\ \E days \in {0, 1} :
          /\ outreach_log' = [k \in 1..Len(outreach_log) |->
                 [outreach_log[k] EXCEPT !.present = @ /\ ~(outreach_log[k].sent_at < now - days)]]
          /\ op' = [name |-> "cleanup_old_data", arg |-> days, rows |-> <<>>]
    /\ UNCHANGED <<storeVars, now, updated_at, upserts>>
    /\ QueryFrame

QueryNext ==
    Tick \/ SaveBrandAt \/ SearchBrands \/ GetContactsByType \/ LogOutreach \/ CleanupOldData

\* the store under any sequence of saves, queries, log entries and clean-ups
QuerySpec == QueryInit /\ [][QueryNext]_vars


(***************************************************************************)
(* WhatsAppAgent.send_bulk_messages                                        *)
(***************************************************************************)

MaxBulk == 3

\* the kinds of element of the list contacts: a dict with phone and message,
\* a dict that lacks one of them, and an element whose get raises
BulkContacts == UNION {[1..n -> {"ok", "missing", "raises"}] : n \in 0..MaxBulk}

\* faulty variant: the delay is taken after every message
ShouldSleepAlways(i, n) == TRUE

\* if i < len(contacts) - 1, i counted from 0
ShouldSleep(i, n) == i < n - 1

BulkInit ==
    /\ \E list \in BulkContacts :
          bulk = [NoBulk EXCEPT !.contacts = list, !.total = Len(list), !.pc = "loop"]
    /\ req = NoReq
    /\ BotIdle
    /\ DbIdle
    /\ StoreIdle
    /\ TaskIdle
    /\ AggIdle
    /\ raw = <<>>
    /\ PhoneIdle
    /\ EmailIdle
    /\ pc = "bulk"

\* one pass of the body of the for loop, for the contact with index bulk.i;
\* success is what send_message returns, which catches every exception itself
Iterate ==
    /\ pc = "bulk"
    /\ bulk.pc = "loop"
    /\ bulk.i < Len(bulk.contacts)
    /\ \E success \in BOOLEAN :
          bulk' =
              IF bulk.contacts[bulk.i + 1] # "ok"
                 THEN [bulk EXCEPT !.i = @ + 1, !.failed = @ + 1]
                 ELSE [bulk EXCEPT
                          !.i        = @ + 1,
                          !.sent     = IF success THEN @ + 1 ELSE @,
                          !.failed   = IF success THEN @ ELSE @ + 1,
                          !.returned = Append(@, success),
                          !.slept    = IF ShouldSleep(bulk.i, Len(bulk.contacts))
                                          THEN Append(@, bulk.i) ELSE @]
    /\ UNCHANGED <<phoneVars, emailVars, storeVars, taskVars, aggVars, botVars, dbVars, req>>

\* the list is exhausted: return results
Return ==
    /\ pc = "bulk"
    /\ bulk.pc = "loop"
    /\ bulk.i = Len(bulk.contacts)
    /\ bulk' = [bulk EXCEPT !.pc = "returned"]
    /\ UNCHANGED <<phoneVars, emailVars, storeVars, taskVars, aggVars, botVars, dbVars, req>>

BulkSpec == BulkInit /\ [][Iterate \/ Return]_vars

\* the coroutine is run to its end: the event loop resumes it after every await
FairBulkSpec == BulkSpec /\ WF_vars(Iterate \/ Return)


(***************************************************************************)
(* make_request of the two scrapers                                        *)
(***************************************************************************)

MAX_RETRIES == 3

REQUEST_DELAY == 2

\* faulty variant: the same delay after every failed attempt
SleepFixed(attempt) == REQUEST_DELAY

\* time.sleep(REQUEST_DELAY * (attempt + 1)); simple_scraper writes 2 for REQUEST_DELAY
Sleep(attempt) == REQUEST_DELAY * (attempt + 1)

\* make_request(url, retries) is called; response is the number of the attempt
\* whose response is returned, 0 for None
ReqInit ==
    /\ \E retries \in 0..(MAX_RETRIES + 1) : req = [NoReq EXCEPT !.retries = retries, !.pc = "loop"]
    /\ bulk = NoBulk
    /\ BotIdle
    /\ DbIdle
    /\ StoreIdle
    /\ TaskIdle
    /\ AggIdle
    /\ raw = <<>>
    /\ PhoneIdle
    /\ EmailIdle
    /\ pc = "request"

\* one pass of the loop: the get answers 200, answers another status, or raises
Attempt ==
    /\ pc = "request"
    /\ req.pc = "loop"
    /\ req.attempt < req.retries
    /\ \E outcome \in {"200", "other", "raised"} :
          req' = CASE outcome = "200" ->
                        [req EXCEPT !.outcomes = Append(@, outcome), !.response = req.attempt + 1,
                                    !.pc = "returned"]
                   [] outcome = "other" ->
                        [req EXCEPT !.outcomes = Append(@, outcome), !.attempt = @ + 1]
                   [] outcome = "raised" ->
                        [req EXCEPT !.outcomes = Append(@, outcome), !.attempt = @ + 1,
                                    !.slept = Append(@, [after |-> req.attempt + 1,
                                                         seconds |-> Sleep(req.attempt)])]
    /\ UNCHANGED <<phoneVars, emailVars, storeVars, taskVars, aggVars, botVars, dbVars, bulk>>

\* range(retries) is exhausted: return None
ReturnNone ==
    /\ pc = "request"
    /\ req.pc = "loop"
    /\ req.attempt >= req.retries
    /\ req' = [req EXCEPT !.pc = "returned"]
    /\ UNCHANGED <<phoneVars, emailVars, storeVars, taskVars, aggVars, botVars, dbVars, bulk>>

RetrySpec == ReqInit /\ [][Attempt \/ ReturnNone]_vars

\* the loop is sequential code: every get returns or raises within its timeout
FairRetrySpec == RetrySpec /\ WF_vars(Attempt \/ ReturnNone)


(***************************************************************************)
(* Properties of the bot, checked under BotSpec                            *)
(***************************************************************************)

\* the values of the four buckets of a search result
BucketValues(r) == Range(r.whatsapp) \cup Range(r.phone) \cup Range(r.email) \cup Range(r.social)

\* C21: when a contact search returns a non-empty result and the bot saves it,
\* the store holds an entity whose contact rows include every value of the
\* result's whatsapp, phone, email and social buckets, and no other entity's
\* row or contacts are changed by the save.
C21_ContactsReachStore ==
    [][update'.saved =>
          \E id \in 1..Len(brands') :
              /\ BucketValues(update'.found)
                     \subseteq {c.contact_value : c \in RowsOf(contacts', id)}
              /\ \A other \in (1..Len(brands)) \ {id} :
                     /\ brands'[other] = brands[other]
                     /\ RowsOf(contacts', other) = RowsOf(contacts, other)]_vars

\* C22: every phone number handed to send_message, and every number put into
\* the send URL, is the canonical international form of the user's input:
\* +62, no leading 0, no separators (the URL carries it without the plus).
C22_OnlyNormalizedSent ==
    /\ update.sent # None => update.sent = clean_phone_number(update.sent)
    /\ update.url # None => <<"+">> \o update.url = clean_phone_number(update.sent)

\* C28: in every step of the bot, a search is started only for a sender in
\* stage finding_contacts; a send is started only for a sender in stage
\* whatsapp_outreach whose text has a bar and a part before it that
\* validate_phone_number accepts; a message of a sender with no session or in
\* another stage starts no search and no send and leaves the store as it was;
\* and the stage of every user other than the sender stays what it was.
C28_SessionGating ==
    [][LET u     == update'.user
           stage == user_sessions[u]
           text  == update'.text
           phone == Strip(SubSeq(text, 1, FirstBar(text) - 1))
       IN  /\ update'.searched => stage = "finding_contacts"
           /\ update'.sent # None =>
                 /\ stage = "whatsapp_outreach"
                 /\ FirstBar(text) # 0
                 /\ \E valid \in BOOLEAN : validate_phone_number(phone, valid)
           /\ update'.kind = "message" /\ stage \notin {"finding_contacts", "whatsapp_outreach"} =>
                 /\ ~update'.searched
                 /\ update'.sent = None
                 /\ UNCHANGED <<brands, contacts>>
           /\ \A v \in Users \ {u} : user_sessions'[v] = user_sessions[v]]_vars

\* a send was started for one user while the other user is in another stage,
\* and a search of an earlier update has written the store
C28_Witness ==
    /\ update.sent # None
    /\ \E v \in Users \ {update.user} : user_sessions[v] = "finding_contacts"
    /\ \E id \in 1..Len(brands) : brands[id].name = "Unknown"


(***************************************************************************)
(* Properties of the queries and of the outreach log, checked under        *)
(* QuerySpec                                                               *)
(***************************************************************************)

\* the place of the last save_brand call that wrote the row id
LastUpsert(id) ==
    CHOOSE k \in 1..Len(upserts) : upserts[k] = id /\ \A j \in (k + 1)..Len(upserts) : upserts[j] # id

\* C23: search_brands returns at most 50 entities, and of any two entities it
\* returns, the one whose last upsert (insert or update by save_brand) came
\* later stands earlier in the list.
C23_RecentFirst ==
    op.name = "search_brands" =>
        /\ Len(op.rows) <= PageSize
        /\ \A i, j \in 1..Len(op.rows) :
              i < j => LastUpsert(op.rows[i]) > LastUpsert(op.rows[j])

\* the condition as documented: a substring without regard to case
IsSubstring(sub, v) == Contains(Lower(Text[v]), Lower(sub))

\* C24: search_brands returns exactly the entities for which every given
\* condition holds: the query is a substring of name, category, location or
\* description, the category equals the category filter, the business_type
\* equals the business_type filter, the location contains the location filter.
C24_ExactMatches ==
    op.name = "search_brands" =>
        Range(op.rows) =
            { id \in 1..Len(brands) :
                /\ op.arg.query # <<>> =>
                      \E col \in {brands[id].name, brands[id].category,
                                  brands[id].location, brands[id].description} :
                          IsSubstring(op.arg.query, col)
                /\ op.arg.category # "" => brands[id].category = op.arg.category
                /\ op.arg.business_type # "" => brands[id].business_type = op.arg.business_type
                /\ op.arg.location # <<>> => IsSubstring(op.arg.location, brands[id].location) }

\* C25: get_contacts_by_type(k) returns one record (value, entity name, entity
\* id) for every contact row of kind k and nothing else, and a number the
\* aggregator put into the whatsapp bucket that was saved with an entity is
\* among the records returned for kind whatsapp.
C25_ContactsByKind ==
    op.name = "get_contacts_by_type" =>
        /\ Len(op.rows) = Cardinality({k \in 1..Len(contacts) : contacts[k].contact_type = op.arg})
        /\ \A k \in 1..Len(contacts) :
              contacts[k].contact_type = op.arg =>
                  \E r \in 1..Len(op.rows) :
                      /\ op.rows[r].value = contacts[k].contact_value
                      /\ op.rows[r].brand_id = contacts[k].brand_id
                      /\ op.rows[r].brand_name = brands[contacts[k].brand_id].name
        /\ op.arg = "whatsapp" =>
              \A id \in 1..Len(brands) :
                  \A v \in Range(WhatsAppBucket) \cap Range(brands[id].contacts) :
                      \E r \in 1..Len(op.rows) : op.rows[r].value = v /\ op.rows[r].brand_id = id

\* C26: every record log_outreach has written is still in the outreach log,
\* whatever operations of the store were executed since.
C26_AppendOnly == \A k \in 1..Len(outreach_log) : outreach_log[k].present


(***************************************************************************)
(* Uniqueness in the brands table, checked under Spec                      *)
(***************************************************************************)

\* C27: in every state of the store, no two rows of the brands table have the
\* same name, and no two rows have the same website unless it is empty.
C27_UniqueNameWebsite ==
    \A a, b \in 1..Len(brands) :
        a # b =>
            /\ brands[a].name # brands[b].name
            /\ brands[a].website # "" => brands[a].website # brands[b].website


(***************************************************************************)
(* Properties of send_bulk_messages, checked under FairBulkSpec            *)
(***************************************************************************)

BulkReturned == pc = "bulk" /\ bulk.pc = "returned"

\* C29: send_bulk_messages returns, and the counts it returns satisfy
\* sent + failed = total = len(contacts) with sent the number of contacts for
\* which send_message returned True; a delay is taken only after a contact
\* that is not the last one.
C29_EveryContactOnce ==
    /\ [](BulkReturned =>
            /\ bulk.sent + bulk.failed = bulk.total
            /\ bulk.total = Len(bulk.contacts)
            /\ bulk.sent = Cardinality({k \in 1..Len(bulk.returned) : bulk.returned[k]})
            /\ Len(bulk.returned) = Cardinality({k \in 1..Len(bulk.contacts) : bulk.contacts[k] = "ok"}))
    /\ [](\A k \in 1..Len(bulk.slept) : bulk.slept[k] + 1 < Len(bulk.contacts))
    /\ (pc = "bulk" => <>BulkReturned)

\* a list with a contact that lacks a field, one whose get raises and one that
\* was sent, handled to the end, with a delay taken
C29_Witness ==
    /\ BulkReturned
    /\ {"ok", "missing", "raises"} \subseteq Range(bulk.contacts)
    /\ bulk.sent > 0
    /\ bulk.slept # <<>>


(***************************************************************************)
(* Properties of make_request, checked under FairRetrySpec                 *)
(***************************************************************************)

ReqReturned == pc = "request" /\ req.pc = "returned"

\* C30: make_request returns; it makes at most retries attempts and none after
\* an attempt that answered 200, whose response it returns; it returns None
\* exactly when no attempt answered 200; and it sleeps exactly after the
\* attempts that raised, longer after a later attempt.
C30_BoundedRetries ==
    /\ [](/\ Len(req.outcomes) <= req.retries
          /\ \A k \in 1..(Len(req.outcomes) - 1) : req.outcomes[k] # "200"
          /\ {req.slept[k].after : k \in 1..Len(req.slept)}
                = {k \in 1..Len(req.outcomes) : req.outcomes[k] = "raised"}
          /\ \A j, k \in 1..Len(req.slept) :
                req.slept[j].after < req.slept[k].after
                    => req.slept[j].seconds < req.slept[k].seconds)
    /\ [](ReqReturned =>
            /\ req.response = 0 <=> \A k \in 1..Len(req.outcomes) : req.outcomes[k] # "200"
            /\ req.response = 0 => Len(req.outcomes) = req.retries
            /\ req.response # 0 =>
                  req.response = Len(req.outcomes) /\ req.outcomes[Len(req.outcomes)] = "200")
    /\ (pc = "request" => <>ReqReturned)

\* a call that got another status, then an exception, then 200
C30_Witness ==
    /\ ReqReturned
    /\ req.outcomes = <<"other", "raised", "200">>
    /\ req.response = 3

=============================================================================
